---- MODULE Spec2Model ----
(***************************************************************************)
(* Team-balancing engine of PragueUltimateTrueSkill (src/script.js, and    *)
(* its near-duplicate src/website/script.js): handleBuildTeams validates   *)
(* the input and looks the skills up, balanceTeams sorts the players,      *)
(* seeds the teams by a serpentine draft and improves them by randomized   *)
(* hill climbing, displayTeams sorts the result for display.  The skills    *)
(* come from leaderboardData, which loadLeaderboard fills asynchronously:  *)
(* a click before the fetch has resolved, or after it has failed, finds    *)
(* the Map empty.                                                          *)
(*                                                                         *)
(* The two files differ in the click handler.  That of src/script.js makes *)
(* one player per line of the names field and gives DEFAULT_TRUESKILL to a *)
(* name the leaderboard does not have.  That of src/website/script.js      *)
(* makes one player per distinct name (case ignored) that the leaderboard  *)
(* has, and lists the other names as not found.                            *)
(*                                                                         *)
(* Names.  A name is kept as the sequence of its characters, so that       *)
(* toLowerCase is a conversion and "A" and "a" are different names with    *)
(* the same key.                                                           *)
(*                                                                         *)
(* Numbers.  Skills, totals, averages and costs are JavaScript numbers:    *)
(* IEEE 754 binary64, every operation rounded to nearest, ties to even.    *)
(* The model computes each +, -, /, Math.pow(x, 2) and Math.sqrt with that *)
(* rounding, in the order the code applies them.                           *)
(*                                                                         *)
(* Indices.  teamIndex, teamIndex1/2 and playerIndex1/2 are 0-based as in  *)
(* the code; TLA+ sequences are 1-based, so teams[t + 1] is JS teams[t].   *)
(***************************************************************************)
EXTENDS Integers, Sequences, FiniteSets

\* ---------------------------------------------------------------- bounds
MaxPlayers == 3        \* longest enumerated list of names
MaxTeams == 3        \* largest enumerated team count
MaxTrials == 3        \* trials of the optimizer loop that are explored

\* ------------------------------------------------------ program constants
OPTIMIZATION_ITERATIONS == 20000

VARIABLES
    pc,           \* position: "idle", "seed", "loop", "done", "displayed", "alert", "threw"
    caller,       \* entry point: "none", "handleBuildTeams", "website_handleBuildTeams",
                  \*              "balanceTeams", "optimizeTeams_HillClimbing"
    alert,        \* which alert() the click handler raised, "none" if none: "names",
                  \* "teamCount", "fewPlayers" (src/script.js), "fewFound" and
                  \* "noPlayers" (src/website/script.js)
    namesInput,   \* the names the players were made of (the lines of the names field)
    players,      \* the players array (sorted in place by balanceTeams)
    teamCount,    \* parseInt result / teamCount argument: [nan, val]
    teams,        \* the teams array: seq of [name, players, totalSkill]
    teamIndex,    \* seedTeams_Serpentine: current team index (0-based)
    direction,    \* seedTeams_Serpentine: +1 or -1
    nextP,        \* seedTeams_Serpentine: players already consumed by for-of
    iterations,   \* optimizeTeams_HillClimbing: the trial budget
    i,            \* optimizeTeams_HillClimbing: loop counter
    currentCost,  \* optimizeTeams_HillClimbing: tracked cost
    outcome,      \* branch taken by the last loop iteration
    seeded,       \* the teams as handed to optimizeTeams_HillClimbing
    finalCost,    \* displayTeams: the cost it shows
    leaderboardData, \* the Map of parseCSV: lower-case name -> [originalName, rank, skill]
    loading,      \* loadLeaderboard: "pending", "parsed", "missingColumns", "failed"
    notFoundPlayers \* website handleBuildTeams: the names it found no entry for
                    \* (which names, not their order)

vars == << pc, caller, alert, namesInput, players, teamCount, teams, teamIndex,
           direction, nextP, iterations, i, currentCost, outcome, seeded,
           finalCost, leaderboardData, loading, notFoundPlayers >>

\* ------------------------------------------------- IEEE 754 binary64 numbers
\* A JavaScript number is [neg, hi, lo, exp]: the value
\* (-1)^neg * (hi * 2^27 + lo) * 2^exp with a 53-bit significand
\* (2^25 <= hi < 2^26, 0 <= lo < 2^27), or Zero.  Every operation gives the
\* exact result rounded to the nearest such number, ties to the even
\* significand, as the hardware does (no overflow or subnormal arises for
\* skills of ordinary size).
P27 == 134217728
P26 == 67108864
P25 == 33554432
P14 == 16384

Pow2Table == << 1, 2, 4, 8, 16, 32, 64, 128, 256, 512, 1024, 2048, 4096, 8192,
                16384, 32768, 65536, 131072, 262144, 524288, 1048576, 2097152,
                4194304, 8388608, 16777216, 33554432, 67108864, 134217728,
                268435456, 536870912, 1073741824 >>

\* 2^k for 0 <= k <= 30
Pow2(k) == Pow2Table[k + 1]

\* number of binary digits of n >= 0
RECURSIVE BitLen(_)
BitLen(n) ==
    IF n >= 256 THEN 8 + BitLen(n \div 256)
    ELSE IF n >= 16 THEN (IF n >= 64 THEN (IF n >= 128 THEN 8 ELSE 7)
                          ELSE (IF n >= 32 THEN 6 ELSE 5))
    ELSE IF n >= 4 THEN (IF n >= 8 THEN 4 ELSE 3)
    ELSE IF n >= 2 THEN 2 ELSE n

Zero == [neg |-> FALSE, hi |-> 0, lo |-> 0, exp |-> 0]

IsZero(a) == a.hi = 0

\* The integer xh * 2^27 + xl (0 <= xl < 2^27, 0 <= xh < 2^31), shifted left
\* by k bits, 0 <= k <= 26; the result must stay below 2^58.
ShiftLeft(xh, xl, k) ==
    [hi |-> xh * Pow2(k) + (xl \div Pow2(27 - k)),
     lo |-> (xl % Pow2(27 - k)) * Pow2(k)]

\* The same integer shifted right by k >= 0 bits; the lowest bit of the result
\* is set when a 1 was shifted out (the sticky bit).
ShiftRightSticky(xh, xl, k) ==
    IF k = 0 THEN [hi |-> xh, lo |-> xl]
    ELSE IF k < 27 THEN
        LET l == (xl \div Pow2(k)) + (xh % Pow2(k)) * Pow2(27 - k)
            s == IF xl % Pow2(k) # 0 THEN 1 ELSE 0
        IN  [hi |-> xh \div Pow2(k), lo |-> IF l % 2 = 0 THEN l + s ELSE l]
    ELSE IF k < 58 THEN
        LET v == xh \div Pow2(k - 27)
            l == v % P27
            s == IF xl # 0 \/ xh % Pow2(k - 27) # 0 THEN 1 ELSE 0
        IN  [hi |-> v \div P27, lo |-> IF l % 2 = 0 THEN l + s ELSE l]
    ELSE [hi |-> 0, lo |-> IF xh # 0 \/ xl # 0 THEN 1 ELSE 0]

\* The number with the 53-bit significand qh * 2^27 + l1, where l1 may have
\* been rounded up to 2^27 (a carry into qh, and maybe into the exponent).
RoundCarried(neg, qh, l1, e) ==
    IF l1 # P27 THEN [neg |-> neg, hi |-> qh, lo |-> l1, exp |-> e]
    ELSE IF qh + 1 = P26 THEN [neg |-> neg, hi |-> P25, lo |-> 0, exp |-> e + 1]
    ELSE [neg |-> neg, hi |-> qh + 1, lo |-> 0, exp |-> e]

\* The significand qh * 2^27 + ql with the dropped bits r, of which half is
\* the weight of the highest: round up above a half, and at a half to even.
RoundNearestEven(neg, qh, ql, r, half, e) ==
    RoundCarried(neg, qh, IF r > half \/ (r = half /\ ql % 2 = 1) THEN ql + 1 ELSE ql, e)

\* An integer of len bits as a number: shifted left to 53 bits when it is
\* shorter, its lowest len - 53 bits (1 to 5) rounded away when it is longer.
RoundBits(neg, xh, xl, e, len) ==
    IF len <= 27
    THEN [neg |-> neg, hi |-> (xl * Pow2(27 - len)) \div 2,
          lo |-> ((xl * Pow2(27 - len)) % 2) * P26, exp |-> e - (53 - len)]
    ELSE IF len <= 53
    THEN [neg |-> neg, hi |-> ShiftLeft(xh, xl, 53 - len).hi,
          lo |-> ShiftLeft(xh, xl, 53 - len).lo, exp |-> e - (53 - len)]
    ELSE RoundNearestEven(neg, xh \div Pow2(len - 53),
                          (xl \div Pow2(len - 53)) + (xh % Pow2(len - 53)) * Pow2(80 - len),
                          xl % Pow2(len - 53), Pow2(len - 54), e + (len - 53))

\* Round to nearest, ties to even: the number nearest to
\* (-1)^neg * (xh * 2^27 + xl) * 2^e, for an integer below 2^58 whose lowest
\* bit may be a sticky bit when it has 55 bits or more.
Round(neg, xh, xl, e) ==
    IF xh = 0 /\ xl = 0 THEN Zero
    ELSE RoundBits(neg, xh, xl, e, IF xh # 0 THEN 27 + BitLen(xh) ELSE BitLen(xl))

\* The integer n (0 <= n < 2^27) as a number.
Number(n) == Round(FALSE, 0, n, 0)

Neg(a) == IF IsZero(a) THEN a ELSE [a EXCEPT !.neg = ~a.neg]

\* The number nearest to (-1)^neg * (h * 2^27 + l) * 2^e, for l that may have
\* left 0 .. 2^27 - 1 by one carry or one borrow.
RoundCarry(neg, h, l, e) == Round(neg, h + (l \div P27), l % P27, e)

\* x >= y for integers [hi, lo]
IntegerGeq(x, y) == x.hi > y.hi \/ (x.hi = y.hi /\ x.lo >= y.lo)

\* x + y when same, else |x - y|; lo may leave 0 .. 2^27 - 1 by one carry or
\* one borrow.
AddOrSubtract(same, x, y) ==
    IF same THEN [hi |-> x.hi + y.hi, lo |-> x.lo + y.lo]
    ELSE IF IntegerGeq(x, y) THEN [hi |-> x.hi - y.hi, lo |-> x.lo - y.lo]
    ELSE [hi |-> y.hi - x.hi, lo |-> y.lo - x.lo]

RoundInteger(neg, x, e) == RoundCarry(neg, x.hi, x.lo, e)

\* The sum of the aligned integers x and y of the signs na and nb, rounded;
\* it has the sign of the larger one.
AddIntegers(na, nb, x, y, e) ==
    RoundInteger(IF IntegerGeq(x, y) THEN na ELSE nb, AddOrSubtract(na = nb, x, y), e)

ShiftRightStickyOf(x, k) == ShiftRightSticky(x.hi, x.lo, k)

\* a + b for a of the larger or equal exponent: three guard bits under a's
\* significand, b shifted right to a's exponent.
AddAligned(a, b) ==
    AddIntegers(a.neg, b.neg, ShiftLeft(a.hi, a.lo, 3),
                ShiftRightStickyOf(ShiftLeft(b.hi, b.lo, 3), a.exp - b.exp), a.exp - 3)

\* a + b
Add(a, b) ==
    IF IsZero(a) THEN b
    ELSE IF IsZero(b) THEN a
    ELSE AddAligned(IF a.exp >= b.exp THEN a ELSE b, IF a.exp >= b.exp THEN b ELSE a)

\* a - b
Sub(a, b) == Add(a, Neg(b))

\* The significand of a as four digits of 14 bits, lowest first.
Digits14(a) ==
    << a.lo % P14,
       (a.lo \div P14) + (a.hi % 2) * 8192,
       (a.hi \div 2) % P14,
       a.hi \div 32768 >>

\* Digits of 14 bits, lowest first, from columns that may exceed a digit: the
\* excess of each column is carried into the next, the last keeps its own.
RECURSIVE PropagateCarries(_, _)
PropagateCarries(cols, carry) ==
    IF Len(cols) = 1 THEN << cols[1] + carry >>
    ELSE << (cols[1] + carry) % P14 >>
         \o PropagateCarries(Tail(cols), (cols[1] + carry) \div P14)

\* The columns of the schoolbook product of two four-digit integers.
ProductColumns(x, y) ==
    << x[1] * y[1],
       x[1] * y[2] + x[2] * y[1],
       x[1] * y[3] + x[2] * y[2] + x[3] * y[1],
       x[1] * y[4] + x[2] * y[3] + x[3] * y[2] + x[4] * y[1],
       x[2] * y[4] + x[3] * y[3] + x[4] * y[2],
       x[3] * y[4] + x[4] * y[3],
       x[4] * y[4] >>

\* l with its lowest bit set when sticky (a 1 was dropped below it)
WithSticky(l, sticky) == IF sticky /\ l % 2 = 0 THEN l + 1 ELSE l

\* The product d (seven digits) times 2^(e - 50), rounded: the product
\* without its 50 lowest bits, the lowest bit sticky.
RoundProduct(neg, d, e) ==
    Round(neg, (d[6] \div 128) + d[7] * 128,
          WithSticky((d[4] \div 256) + d[5] * 64 + (d[6] % 128) * 1048576,
                     d[1] # 0 \/ d[2] # 0 \/ d[3] # 0 \/ d[4] % 256 # 0),
          e)

\* a * b
Mul(a, b) ==
    IF IsZero(a) \/ IsZero(b) THEN Zero
    ELSE RoundProduct(a.neg # b.neg,
                      PropagateCarries(ProductColumns(Digits14(a), Digits14(b)), 0),
                      a.exp + b.exp + 50)

\* Math.pow(x, y), which the code calls with y = 2 only: x * x
Math_pow(x, y) == Mul(x, x)

\* Long division of the digits d (lowest first) by n: the quotient's digits
\* and the remainder.
RECURSIVE DivideDigits(_, _)
DivideNext(digit, n, higher) ==
    [q   |-> << (higher.rem * P14 + digit) \div n >> \o higher.q,
     rem |-> (higher.rem * P14 + digit) % n]

DivideDigits(d, n) ==
    IF d = << >> THEN [q |-> << >>, rem |-> 0]
    ELSE DivideNext(d[1], n, DivideDigits(Tail(d), n))

\* The quotient r (below 2^55) times 2^(e + 1), rounded: twice the quotient,
\* plus the sticky bit of a remainder.
RoundQuotient(neg, r, e) ==
    Round(neg,
          ((r.q[2] \div 8192) + r.q[3] * 2 + r.q[4] * 32768) * 2
              + ((r.q[1] + (r.q[2] % 8192) * P14) \div P26),
          ((r.q[1] + (r.q[2] % 8192) * P14) % P26) * 2 + (IF r.rem # 0 THEN 1 ELSE 0),
          e)

\* a / n with the significand of a first multiplied by 2^s
DivScaled(a, n, s) ==
    RoundQuotient(a.neg,
                  DivideDigits(PropagateCarries(
                      [k \in 1..4 |-> Digits14(a)[k] * Pow2(s)] \o << 0 >>, 0), n),
                  a.exp - s - 1)

\* a / n for an integer n, 1 <= n < 2^13
Div(a, n) == IF IsZero(a) THEN Zero ELSE DivScaled(a, n, BitLen(n) + 2)

\* The square root of the radicand (h, l), one binary digit at a time, n
\* digits to go: rem is the remainder so far and root the digits so far.
RECURSIVE SqrtDigits(_, _, _, _, _, _, _)

\* Try the digit 1: (rh, rl) is the remainder with the next two bits of the
\* radicand brought down, (th, tl) is 4 * root + 1, (dh, dl) is 2 * root.
SqrtTry(n, h1, l1, rh, rl, th, tl, dh, dl) ==
    IF rh > th \/ (rh = th /\ rl >= tl)
    THEN SqrtDigits(n - 1, h1, l1,
                    IF rl >= tl THEN rh - th ELSE rh - th - 1,
                    IF rl >= tl THEN rl - tl ELSE rl - tl + P27,
                    dh, dl + 1)
    ELSE SqrtDigits(n - 1, h1, l1, rh, rl, dh, dl)

SqrtDigits(n, h, l, remh, reml, rooth, rootl) ==
    IF n = 0 THEN [hi |-> rooth, lo |-> rootl, exact |-> (remh = 0 /\ reml = 0)]
    ELSE SqrtTry(n, (h % P25) * 4 + (l \div P25), (l % P25) * 4,
                 remh * 4 + ((reml * 4 + (h \div P25)) \div P27),
                 (reml * 4 + (h \div P25)) % P27,
                 rooth * 4 + ((rootl * 4 + 1) \div P27), (rootl * 4 + 1) % P27,
                 rooth * 2 + ((rootl * 2) \div P27), (rootl * 2) % P27)

\* The root r of 54 binary digits times 2^(e + 1), rounded; the lowest bit is
\* sticky when the root is not exact.
RoundRoot(r, e) ==
    Round(FALSE, r.hi * 2 + (r.lo \div P26),
          (r.lo % P26) * 2 + (IF r.exact THEN 0 ELSE 1), e)

\* Math.sqrt(a) for a >= 0: the radicand is the significand times 2^54, or
\* times 2^55 when the exponent is odd.
Math_sqrt(a) ==
    IF IsZero(a) THEN Zero
    ELSE IF a.exp % 2 = 1
    THEN RoundRoot(SqrtDigits(54, a.hi * 2 + (a.lo \div P26), (a.lo % P26) * 2, 0, 0, 0, 0),
                   ((a.exp - 55) \div 2) - 1)
    ELSE RoundRoot(SqrtDigits(54, a.hi, a.lo, 0, 0, 0, 0), ((a.exp - 54) \div 2) - 1)

Sign(a) == IF IsZero(a) THEN 0 ELSE IF a.neg THEN -1 ELSE 1

MagnitudeLess(a, b) ==
    \/ a.exp < b.exp
    \/ a.exp = b.exp /\ (a.hi < b.hi \/ (a.hi = b.hi /\ a.lo < b.lo))

\* a < b
Less(a, b) ==
    IF Sign(a) # Sign(b) THEN Sign(a) < Sign(b)
    ELSE IF Sign(a) = 1 THEN MagnitudeLess(a, b)
    ELSE IF Sign(a) = -1 THEN MagnitudeLess(b, a)
    ELSE FALSE

\* parseFloat of the decimal numeral digits / 10^places
parseFloat(neg, digits, tenToPlaces) ==
    IF neg THEN Neg(Div(Number(digits), tenToPlaces)) ELSE Div(Number(digits), tenToPlaces)

\* ------------------------------------------------------------- the cost
\* numbers.reduce((a, b) => a + b, 0)
RECURSIVE Sum(_)
Sum(s) == IF s = << >> THEN Zero ELSE Add(Sum(SubSeq(s, 1, Len(s) - 1)), s[Len(s)])

\* numbers.reduce((sum, val) => sum + Math.pow(val - mean, 2), 0)
RECURSIVE SumSquaredDev(_, _)
SumSquaredDev(s, mean) ==
    IF s = << >> THEN Zero
    ELSE Add(SumSquaredDev(SubSeq(s, 1, Len(s) - 1), mean),
             Math_pow(Sub(s[Len(s)], mean), 2))

\* calculateStdDev: the population standard deviation, the square root of
\* variance = squared deviations from mean / length, mean = sum / length.
calculateStdDev(numbers) ==
    IF Len(numbers) = 0 THEN Zero
    ELSE Math_sqrt(Div(SumSquaredDev(numbers, Div(Sum(numbers), Len(numbers))),
                       Len(numbers)))

getAverageSkill(team) ==
    IF Len(team.players) > 0 THEN Div(team.totalSkill, Len(team.players)) ELSE Zero

calculateCost(ts) == calculateStdDev([t \in DOMAIN ts |-> getAverageSkill(ts[t])])

\* Each new average is divided by the other team's length.
calculateHypotheticalCost_SwappedLengths(ts, t1_idx, t2_idx, p1, p2) ==
    calculateStdDev(
        [[t \in DOMAIN ts |-> getAverageSkill(ts[t])] EXCEPT
            ![t1_idx + 1] = Div(Add(Sub(ts[t1_idx + 1].totalSkill, p1.skill), p2.skill),
                                Len(ts[t2_idx + 1].players)),
            ![t2_idx + 1] = Div(Add(Sub(ts[t2_idx + 1].totalSkill, p2.skill), p1.skill),
                                Len(ts[t1_idx + 1].players))])

\* Cost after swapping p1 (of team t1_idx) with p2 (of team t2_idx), computed
\* without touching the teams: the averages of the teams, with those of the
\* two teams replaced by (totalSkill - skill out + skill in) / length.  Only
\* called with both teams non-empty.
calculateHypotheticalCost(ts, t1_idx, t2_idx, p1, p2) ==
    calculateStdDev(
        [[t \in DOMAIN ts |-> getAverageSkill(ts[t])] EXCEPT
            ![t1_idx + 1] = Div(Add(Sub(ts[t1_idx + 1].totalSkill, p1.skill), p2.skill),
                                Len(ts[t1_idx + 1].players)),
            ![t2_idx + 1] = Div(Add(Sub(ts[t2_idx + 1].totalSkill, p2.skill), p1.skill),
                                Len(ts[t2_idx + 1].players))])

\* ----------------------------------------------------------------- inputs
\* const DEFAULT_TRUESKILL = 15.0
DEFAULT_TRUESKILL == Number(15)

\* String.prototype.toLowerCase, character by character.  The names of the
\* model are made of ASCII letters and digits: a capital letter becomes the
\* small letter at the same place, any other character stays as it is.
UpperCaseLetters ==
    << "A", "B", "C", "D", "E", "F", "G", "H", "I", "J", "K", "L", "M",
       "N", "O", "P", "Q", "R", "S", "T", "U", "V", "W", "X", "Y", "Z" >>
LowerCaseLetters ==
    << "a", "b", "c", "d", "e", "f", "g", "h", "i", "j", "k", "l", "m",
       "n", "o", "p", "q", "r", "s", "t", "u", "v", "w", "x", "y", "z" >>

LowerChar(c) ==
    IF \E k \in DOMAIN UpperCaseLetters : UpperCaseLetters[k] = c
    THEN LowerCaseLetters[CHOOSE k \in DOMAIN UpperCaseLetters : UpperCaseLetters[k] = c]
    ELSE c

\* name.toLowerCase()
toLowerCase(name) == [k \in 1..Len(name) |-> LowerChar(name[k])]

\* A data line of leaderboard.csv, as parseCSV reads it: enough is whether
\* line.split(',') has a cell for each of the three columns, name is the
\* trimmed name cell, rank what parseInt makes of the rank cell and
\* true_skill the numeral of the true_skill cell, written as digits /
\* tenToPlaces (0.7 is 7 / 10), or NaN.
Line(enough, name, rank, skillIsNaN, digits, tenToPlaces) ==
    [enough |-> enough, name |-> name, rank |-> rank,
     true_skill |-> [nan |-> skillIsNaN, digits |-> digits, tenToPlaces |-> tenToPlaces]]

\* parseInt(parts[rankIndex], 10) of a numeral, and of a cell that is none.
Rank(n) == [nan |-> FALSE, val |-> n]
NaNRank == [nan |-> TRUE, val |-> 0]

\* The data lines of leaderboard.csv, in file order.  Besides the players of
\* the worked calls the file has a name in capitals ("D"), a name that occurs
\* twice, in two spellings ("B", then "b"), and lines that parseCSV does not
\* store: one with too few cells, one with an empty name, one whose rank and
\* one whose true_skill is not a number.
LeaderboardRows ==
    << Line(TRUE,  <<"B">>,           Rank(1),  FALSE, 9,  10),
       Line(TRUE,  <<"a">>,           Rank(2),  FALSE, 7,  10),
       Line(TRUE,  <<"D">>,           Rank(3),  FALSE, 6,  10),
       Line(FALSE, <<"a">>,           NaNRank,  TRUE,  0,  1),
       Line(TRUE,  << >>,             Rank(4),  FALSE, 5,  10),
       Line(TRUE,  <<"b">>,           Rank(5),  FALSE, 2,  10),
       Line(TRUE,  <<"n", "o">>,      NaNRank,  FALSE, 3,  10),
       Line(TRUE,  <<"n", "o">>,      Rank(6),  TRUE,  0,  1),
       Line(TRUE,  <<"c">>,           Rank(7),  FALSE, 1,  10),
       Line(TRUE,  <<"p", "5", "0">>, Rank(8),  FALSE, 50, 1),
       Line(TRUE,  <<"p", "4", "0">>, Rank(9),  FALSE, 40, 1),
       Line(TRUE,  <<"p", "3", "0">>, Rank(10), FALSE, 30, 1),
       Line(TRUE,  <<"p", "2", "5">>, Rank(11), FALSE, 25, 1),
       Line(TRUE,  <<"p", "2", "0">>, Rank(12), FALSE, 20, 1),
       Line(TRUE,  <<"p", "1", "0">>, Rank(13), FALSE, 10, 1) >>

\* let leaderboardData = new Map()
EmptyMap == [n \in {} |-> Zero]

\* leaderboardData.set(key, value): the key is added, or its value replaced.
MapSet(data, key, value) ==
    [n \in (DOMAIN data) \cup {key} |-> IF n = key THEN value ELSE data[n]]

\* The body of lines.forEach in parseCSV, for one line: a line with a cell in
\* each column, a non-empty name and a rank and a true_skill that are not
\* NaN is stored under name.toLowerCase(); any other line is skipped.
StoreLine(data, line) ==
    IF line.enough /\ line.name # << >> /\ ~line.rank.nan /\ ~line.true_skill.nan
    THEN MapSet(data, toLowerCase(line.name),
                [originalName |-> line.name,
                 rank |-> line.rank.val,
                 skill |-> parseFloat(FALSE, line.true_skill.digits,
                                      line.true_skill.tenToPlaces)])
    ELSE data

\* parseCSV(csvText) on a file whose header has the three columns: the Map
\* data after lines.forEach, the lines taken in file order, so that of two
\* lines with the same key the later one stays.
RECURSIVE parseCSV(_, _)
parseCSV(data, lines) ==
    IF lines = << >> THEN data
    ELSE StoreLine(parseCSV(data, SubSeq(lines, 1, Len(lines) - 1)), lines[Len(lines)])

\* The Map once leaderboard.csv has been loaded.
LoadedLeaderboard == parseCSV(EmptyMap, LeaderboardRows)

\* Names typed into the names field: two of the leaderboard, one of them also
\* in capitals, and one that is not in it.
TypedNames == { <<"a">>, <<"A">>, <<"b">>, <<"n", "o", "b", "o", "d", "y">> }

\* The worked calls, as << names, team count >>.  The trials of the optimizer
\* are explored for these.
Scenarios ==
    { << << <<"p", "5", "0">>, <<"p", "4", "0">>, <<"p", "3", "0">>, <<"p", "2", "0">>,
            <<"p", "1", "0">> >>, 2 >>,
      << << <<"p", "3", "0">>, <<"p", "2", "0">>, <<"p", "1", "0">> >>, 5 >>,
      << [n \in 1..10 |-> <<"n", "o", "b", "o", "d", "y">>], 10 >>,
      << << <<"a">>, <<"b">>, <<"c">> >>, 2 >>,
      << << <<"a">>, <<"b">>, <<"b">> >>, 2 >>,
      << << <<"a">>, <<"b">>, <<"c">> >>, 3 >>,
      << << <<"a">>, <<"b">>, <<"c">>, <<"c">> >>, 3 >>,
      << << <<"a">>, <<"d">>, <<"b">>, <<"c">> >>, 2 >>,
      << << <<"p", "4", "0">>, <<"p", "4", "0">>, <<"p", "4", "0">>, <<"p", "3", "0">>,
            <<"p", "2", "5">> >>, 2 >> }

NameLists == UNION { [1..n -> TypedNames] : n \in 0..MaxPlayers } \cup { s[1] : s \in Scenarios }

\* { name: playerData.originalName, skill: playerData.skill }
FoundPlayer(n, playerData) == [id |-> n, name |-> playerData.originalName, skill |-> playerData.skill]

\* Step 3 of handleBuildTeams in src/script.js: one player object per name,
\* with the skill leaderboardData.get(name.toLowerCase()) has for it in the
\* Map data, or the name as typed with DEFAULT_TRUESKILL when the Map has no
\* such key.  id is the object's identity (its place in the input).
attendingPlayers(names, data) ==
    [n \in 1..Len(names) |->
        IF toLowerCase(names[n]) \in DOMAIN data
        THEN FoundPlayer(n, data[toLowerCase(names[n])])
        ELSE [id |-> n, name |-> names[n], skill |-> DEFAULT_TRUESKILL]]

\* Step 3 of handleBuildTeams in src/website/script.js, allInputNames.forEach:
\* !processedNames.has(nameLower) for the n-th name, which holds when no
\* earlier name has the same lower-case form.
FirstOfItsName(names, n) ==
    \A m \in 1..(n - 1) : toLowerCase(names[m]) # toLowerCase(names[n])

\* attendingPlayers after the first n names: a player is pushed for every
\* name that is the first of its lower-case form and a key of the Map data.
RECURSIVE website_attendingUpTo(_, _, _)
website_attendingUpTo(names, data, n) ==
    IF n = 0 THEN << >>
    ELSE IF FirstOfItsName(names, n) /\ toLowerCase(names[n]) \in DOMAIN data
         THEN Append(website_attendingUpTo(names, data, n - 1),
                     FoundPlayer(n, data[toLowerCase(names[n])]))
         ELSE website_attendingUpTo(names, data, n - 1)

website_attendingPlayers(names, data) == website_attendingUpTo(names, data, Len(names))

\* notFoundPlayers after the forEach: the names, as typed, that are the first
\* of their lower-case form and not a key of the Map data.
website_notFoundPlayers(names, data) ==
    { names[n] : n \in { m \in 1..Len(names) :
                           FirstOfItsName(names, m) /\ toLowerCase(names[m]) \notin DOMAIN data } }

TeamCountValues == (-1..MaxTeams) \cup { s[2] : s \in Scenarios }

\* parseInt(teamCountEl.value, 10): a number or NaN.
ParsedTeamCounts ==
    { [nan |-> FALSE, val |-> n] : n \in TeamCountValues } \cup { [nan |-> TRUE, val |-> 0] }

\* The calls that are explored: every list of names with every team count up
\* to MaxTeams (NaN included), and the worked calls.
Explored(names, tc) ==
    \/ tc.val <= MaxTeams
    \/ << names, tc.val >> \in Scenarios

\* players.sort((a, b) => b.skill - a.skill): stable, descending by skill.
RECURSIVE InsertDesc(_, _)
InsertDesc(sorted, p) ==
    IF sorted = << >> THEN << p >>
    ELSE IF Sign(Sub(p.skill, sorted[Len(sorted)].skill)) <= 0 THEN Append(sorted, p)
    ELSE Append(InsertDesc(SubSeq(sorted, 1, Len(sorted) - 1), p), sorted[Len(sorted)])

RECURSIVE SortBySkillDesc(_)
SortBySkillDesc(ps) ==
    IF ps = << >> THEN << >>
    ELSE InsertDesc(SortBySkillDesc(SubSeq(ps, 1, Len(ps) - 1)), ps[Len(ps)])

EmptyTeams_OneTooMany(n) ==
    [t \in 1..(IF n >= 0 THEN n + 1 ELSE 0) |-> [name |-> t, players |-> << >>, totalSkill |-> Zero]]

\* for (let i = 0; i < teamCount; i++) teams.push({name, players: [], totalSkill: 0});
\* the name `Tým ${i + 1}` is kept as the number i + 1.
EmptyTeams(n) ==
    [t \in 1..(IF n >= 0 THEN n ELSE 0) |-> [name |-> t, players |-> << >>, totalSkill |-> Zero]]

\* ------------------------------------------------------------------- Init
Init ==
    /\ pc = "idle"
    /\ caller = "none"
    /\ alert = "none"
    /\ namesInput = << >>
    /\ players = << >>
    /\ teamCount = [nan |-> FALSE, val |-> 0]
    /\ teams = << >>
    /\ teamIndex = 0
    /\ direction = 1
    /\ nextP = 0
    /\ iterations = 0
    /\ i = 0
    /\ currentCost = Zero
    /\ outcome = "none"
    /\ seeded = << >>
    /\ finalCost = Zero
    /\ leaderboardData = EmptyMap
    /\ loading = "pending"
    /\ notFoundPlayers = {}

\* balanceTeams up to the call of seedTeams_Serpentine; the optimizer will be
\* called with OPTIMIZATION_ITERATIONS.  notFoundPlayers is the caller's.
EnterBalanceTeams(names, ps, tc, who) ==
    /\ pc' = "seed"
    /\ caller' = who
    /\ namesInput' = names
    /\ players' = SortBySkillDesc(ps)
    /\ teamCount' = tc
    /\ teams' = EmptyTeams(tc.val)
    /\ teamIndex' = 0
    /\ direction' = 1
    /\ nextP' = 0
    /\ iterations' = OPTIMIZATION_ITERATIONS
    /\ UNCHANGED << alert, i, currentCost, outcome, seeded, finalCost,
                    leaderboardData, loading >>

\* alert(...); return, with the players built so far.  notFoundPlayers is
\* the caller's.
Reject(names, ps, tc, msg) ==
    /\ pc' = "alert"
    /\ alert' = msg
    /\ namesInput' = names
    /\ players' = ps
    /\ teamCount' = tc
    /\ UNCHANGED << caller, teams, teamIndex, direction, nextP, iterations, i,
                    currentCost, outcome, seeded, finalCost,
                    leaderboardData, loading >>

\* if (isNaN(teamCount) || teamCount < 2)
InvalidTeamCount_Below1(tc) == tc.nan \/ tc.val < 1
InvalidTeamCount(tc) == tc.nan \/ tc.val < 2

\* if (attendingPlayers.length < teamCount)
TooFewPlayers_Unchecked(ps, tc) == FALSE
TooFewPlayers_OffByOne(ps, tc) == Len(ps) + 1 < tc.val
TooFewPlayers(ps, tc) == Len(ps) < tc.val

\* The page is between two tasks: no click is being handled.  handleBuildTeams
\* runs to its end without awaiting, so the continuation of loadLeaderboard
\* runs before a click or after it, never inside.
AtRest == pc \in {"idle", "alert", "displayed"}

\* loadLeaderboard past its awaits.  "parsed": the fetch succeeded and
\* parseCSV stored the rows.  "missingColumns": the header lacks one of name,
\* rank, true_skill and parseCSV returns before storing anything.  "failed":
\* the fetch was rejected or not ok, the catch shows the error.  In the last
\* two leaderboardData stays empty for good.
loadLeaderboard ==
    /\ loading = "pending"
    /\ AtRest
    /\ \E result \in {"parsed", "missingColumns", "failed"} :
         /\ loading' = result
         /\ leaderboardData' = IF result = "parsed"
                               THEN parseCSV(leaderboardData, LeaderboardRows)
                               ELSE leaderboardData
    /\ UNCHANGED << pc, caller, alert, namesInput, players, teamCount, teams, teamIndex,
                    direction, nextP, iterations, i, currentCost, outcome, seeded,
                    finalCost, notFoundPlayers >>

\* handleBuildTeams of src/script.js: the click handler, up to its call of
\* balanceTeams.  names are the non-empty lines of the names field; the
\* trimmed text is empty exactly when there is none.  The skills are looked
\* up in leaderboardData as it is at the click.
handleBuildTeams ==
    /\ pc = "idle"
    /\ \E names \in NameLists, tc \in ParsedTeamCounts :
         /\ Explored(names, tc)
         /\ IF Len(names) = 0 THEN Reject(names, << >>, tc, "names")
            ELSE IF InvalidTeamCount(tc) THEN Reject(names, << >>, tc, "teamCount")
            ELSE IF TooFewPlayers(attendingPlayers(names, leaderboardData), tc)
                 THEN Reject(names, attendingPlayers(names, leaderboardData), tc, "fewPlayers")
            ELSE EnterBalanceTeams(names, attendingPlayers(names, leaderboardData), tc,
                                   "handleBuildTeams")
    /\ UNCHANGED notFoundPlayers

\* alert('No players were found to divide into teams.');
\* displayTeams([], notFoundPlayers); return
ShowNoPlayers(names, tc) ==
    /\ pc' = "displayed"
    /\ alert' = "noPlayers"
    /\ namesInput' = names
    /\ players' = << >>
    /\ teamCount' = tc
    /\ teams' = << >>
    /\ UNCHANGED << caller, teamIndex, direction, nextP, iterations, i, currentCost,
                    outcome, seeded, finalCost, leaderboardData, loading >>

\* handleBuildTeams of src/website/script.js, up to its call of balanceTeams:
\* the same two tests of the input, then the players are the distinct names
\* that leaderboardData has, and the test of the team count is against their
\* number.  The test for no player at all comes after it, and by then the
\* list is at least as long as a team count of 2 or more.
website_handleBuildTeams ==
    /\ pc = "idle"
    /\ \E names \in NameLists, tc \in ParsedTeamCounts :
         /\ Explored(names, tc)
         /\ IF Len(names) = 0
            THEN Reject(names, << >>, tc, "names") /\ UNCHANGED notFoundPlayers
            ELSE IF InvalidTeamCount(tc)
            THEN Reject(names, << >>, tc, "teamCount") /\ UNCHANGED notFoundPlayers
            ELSE /\ notFoundPlayers' = website_notFoundPlayers(names, leaderboardData)
                 /\ IF TooFewPlayers(website_attendingPlayers(names, leaderboardData), tc)
                    THEN Reject(names, website_attendingPlayers(names, leaderboardData), tc,
                                "fewFound")
                    ELSE IF Len(website_attendingPlayers(names, leaderboardData)) = 0
                    THEN ShowNoPlayers(names, tc)
                    ELSE EnterBalanceTeams(names,
                                           website_attendingPlayers(names, leaderboardData),
                                           tc, "website_handleBuildTeams")

\* balanceTeams called on its own, with any team count and with a player list
\* of the caller's making: the players of any names, with the skills of the
\* loaded leaderboard.  The call reads nothing of the page, and is taken with
\* the page as it starts.
balanceTeams ==
    /\ pc = "idle"
    /\ loading = "pending"
    /\ \E names \in NameLists, n \in TeamCountValues :
         /\ Explored(names, [nan |-> FALSE, val |-> n])
         /\ EnterBalanceTeams(names, attendingPlayers(names, LoadedLeaderboard),
                              [nan |-> FALSE, val |-> n], "balanceTeams")
    /\ UNCHANGED notFoundPlayers

\* ------------------------------------------------- seedTeams_Serpentine
\* The turn without the repeated pick: 0,1,0,1,... instead of 0,1,1,0,...
AdvanceIndex_NoRepeat(idx, dir, len) ==
    IF idx + dir >= len THEN [teamIndex |-> IF len > 1 THEN len - 2 ELSE 0, direction |-> -1]
    ELSE IF idx + dir < 0 THEN [teamIndex |-> IF len > 1 THEN 1 ELSE 0, direction |-> 1]
    ELSE [teamIndex |-> idx + dir, direction |-> dir]

\* teamIndex += direction, then the bounds check that turns the snake round.
AdvanceIndex(idx, dir, len) ==
    IF idx + dir >= len THEN [teamIndex |-> len - 1, direction |-> -1]
    ELSE IF idx + dir < 0 THEN [teamIndex |-> 0, direction |-> 1]
    ELSE [teamIndex |-> idx + dir, direction |-> dir]

\* The slot is assigned instead of pushed to.
AddPlayer_Overwrite(ts, idx, player) ==
    [ts EXCEPT ![idx + 1].players = << player >>,
               ![idx + 1].totalSkill = Add(@, player.skill)]

\* teams[teamIndex].players.push(player); teams[teamIndex].totalSkill += player.skill
AddPlayer(ts, idx, player) ==
    [ts EXCEPT ![idx + 1].players = Append(@, player),
               ![idx + 1].totalSkill = Add(@, player.skill)]

\* One iteration of the for-of loop.
SeedStep ==
    /\ pc = "seed"
    /\ nextP < Len(players)
    /\ teamIndex + 1 \in DOMAIN teams
    /\ teams' = AddPlayer(teams, teamIndex, players[nextP + 1])
    /\ teamIndex' = AdvanceIndex(teamIndex, direction, Len(teams)).teamIndex
    /\ direction' = AdvanceIndex(teamIndex, direction, Len(teams)).direction
    /\ nextP' = nextP + 1
    /\ UNCHANGED << pc, caller, alert, namesInput, players, teamCount, iterations, i,
                    currentCost, outcome, seeded, finalCost,
                    leaderboardData, loading, notFoundPlayers >>

\* teams[teamIndex] is undefined (no teams at all): reading .players throws a
\* TypeError, which leaves balanceTeams without a result.
SeedThrow ==
    /\ pc = "seed"
    /\ nextP < Len(players)
    /\ teamIndex + 1 \notin DOMAIN teams
    /\ pc' = "threw"
    /\ UNCHANGED << caller, alert, namesInput, players, teamCount, teams, teamIndex,
                    direction, nextP, iterations, i, currentCost, outcome, seeded,
                    finalCost,
                    leaderboardData, loading, notFoundPlayers >>

\* seedTeams_Serpentine(sortedPlayers, teams) run to its end, from the n-th
\* player on.
RECURSIVE SeedFrom(_, _, _, _, _)
SeedFrom(sortedPlayers, n, ts, idx, dir) ==
    IF n > Len(sortedPlayers) THEN ts
    ELSE SeedFrom(sortedPlayers, n + 1, AddPlayer(ts, idx, sortedPlayers[n]),
                  AdvanceIndex(idx, dir, Len(ts)).teamIndex,
                  AdvanceIndex(idx, dir, Len(ts)).direction)

seedTeams_Serpentine(sortedPlayers, ts) == SeedFrom(sortedPlayers, 1, ts, 0, 1)

\* ------------------------------------------- optimizeTeams_HillClimbing
\* The for-of loop is over; balanceTeams calls the optimizer, which starts
\* with let currentCost = calculateCost(teams) and i = 0.
OptimizeEnter ==
    /\ pc = "seed"
    /\ nextP = Len(players)
    /\ pc' = "loop"
    /\ currentCost' = calculateCost(teams)
    /\ i' = 0
    /\ seeded' = teams
    /\ UNCHANGED << caller, alert, namesInput, players, teamCount, teams, teamIndex,
                    direction, nextP, iterations, outcome, finalCost,
                    leaderboardData, loading, notFoundPlayers >>

\* optimizeTeams_HillClimbing(teams, iterations) called on its own, on the
\* seeded teams of a worked call and with a trial budget of the caller's
\* choice.  The call reads nothing of the page, and is taken with the page as
\* it starts.
optimizeTeams_HillClimbing ==
    /\ pc = "idle"
    /\ loading = "pending"
    /\ \E s \in Scenarios, budget \in 0..MaxTrials :
         /\ namesInput' = s[1]
         /\ teamCount' = [nan |-> FALSE, val |-> s[2]]
         /\ iterations' = budget
         /\ \E ps \in { SortBySkillDesc(attendingPlayers(s[1], LoadedLeaderboard)) } :
              \E ts \in { seedTeams_Serpentine(ps, EmptyTeams(s[2])) } :
                /\ players' = ps
                /\ teams' = ts
                /\ seeded' = ts
                /\ currentCost' = calculateCost(ts)
    /\ pc' = "loop"
    /\ caller' = "optimizeTeams_HillClimbing"
    /\ i' = 0
    /\ UNCHANGED << alert, teamIndex, direction, nextP, outcome, finalCost,
                    leaderboardData, loading, notFoundPlayers >>

LoopCond_Inclusive(n, budget) == n <= budget

\* i < iterations
LoopCond(n, budget) == n < budget

SecondTeam_AsDrawn(r1, r2, len) == r2

\* if (teamIndex1 === teamIndex2) teamIndex2 = (teamIndex1 + 1) % teams.length
SecondTeam(r1, r2, len) == IF r1 = r2 THEN (r1 + 1) % len ELSE r2

Improves_OrEqual(newCost, cost) == ~Less(cost, newCost)

\* if (newCost < currentCost)
Improves(newCost, cost) == Less(newCost, cost)

\* Only the first slot is written.
SwapPlayers_OneSided(ts, t1, t2, pi1, pi2) ==
    [ts EXCEPT
        ![t1 + 1].players[pi1 + 1] = ts[t2 + 1].players[pi2 + 1],
        ![t1 + 1].totalSkill = Add(Sub(@, ts[t1 + 1].players[pi1 + 1].skill),
                                   ts[t2 + 1].players[pi2 + 1].skill),
        ![t2 + 1].totalSkill = Add(Sub(@, ts[t2 + 1].players[pi2 + 1].skill),
                                   ts[t1 + 1].players[pi1 + 1].skill)]

\* player1 is moved over to team 2 and nothing comes back.
SwapPlayers_MoveOnly(ts, t1, t2, pi1, pi2) ==
    [ts EXCEPT
        ![t1 + 1].players = [n \in 1..(Len(@) - 1) |-> IF n < pi1 + 1 THEN @[n] ELSE @[n + 1]],
        ![t2 + 1].players = Append(@, ts[t1 + 1].players[pi1 + 1]),
        ![t1 + 1].totalSkill = Sub(@, ts[t1 + 1].players[pi1 + 1].skill),
        ![t2 + 1].totalSkill = Add(@, ts[t1 + 1].players[pi1 + 1].skill)]

\* The committed swap of player1 = team1.players[playerIndex1] and player2 =
\* team2.players[playerIndex2]: the two slot writes, then the two totalSkill
\* updates team.totalSkill - (player out).skill + (player in).skill.
SwapPlayers(ts, t1, t2, pi1, pi2) ==
    [ts EXCEPT
        ![t1 + 1].players[pi1 + 1] = ts[t2 + 1].players[pi2 + 1],
        ![t2 + 1].players[pi2 + 1] = ts[t1 + 1].players[pi1 + 1],
        ![t1 + 1].totalSkill = Add(Sub(@, ts[t1 + 1].players[pi1 + 1].skill),
                                   ts[t2 + 1].players[pi2 + 1].skill),
        ![t2 + 1].totalSkill = Add(Sub(@, ts[t2 + 1].players[pi2 + 1].skill),
                                   ts[t1 + 1].players[pi1 + 1].skill)]

\* Math.floor(Math.random() * n): any of 0 .. n-1.
Draws(n) == 0..(n - 1)

\* The player index drawn in a team; none is drawn in a trial that skips, for
\* which 0 stands.
PlayerDraws(team) == IF team.players = << >> THEN {0} ELSE Draws(Len(team.players))

CostIsZero_Never(cost) == FALSE

\* currentCost === 0
CostIsZero(cost) == cost = Zero

\* if (newCost < currentCost) { the swap; currentCost = newCost; }
Decide(ts, cost, teamIndex1, teamIndex2, playerIndex1, playerIndex2, newCost) ==
    IF Improves(newCost, cost)
    THEN [teams |-> SwapPlayers(ts, teamIndex1, teamIndex2, playerIndex1, playerIndex2),
          cost |-> newCost, outcome |-> "commit"]
    ELSE [teams |-> ts, cost |-> cost, outcome |-> "reject"]

\* The loop body after the two team indices are fixed: continue when a team
\* is empty, else the hypothetical cost of the drawn swap and the decision.
TrialOn(ts, cost, teamIndex1, teamIndex2, playerIndex1, playerIndex2) ==
    IF Len(ts[teamIndex1 + 1].players) = 0 \/ Len(ts[teamIndex2 + 1].players) = 0
    THEN [teams |-> ts, cost |-> cost, outcome |-> "skip"]
    ELSE Decide(ts, cost, teamIndex1, teamIndex2, playerIndex1, playerIndex2,
                calculateHypotheticalCost(ts, teamIndex1, teamIndex2,
                    ts[teamIndex1 + 1].players[playerIndex1 + 1],
                    ts[teamIndex2 + 1].players[playerIndex2 + 1]))

\* One iteration of the loop past the zero-cost check, for the team draws r1,
\* r2 and the player draws d1, d2: the teams and the cost it leaves, and the
\* branch it took.
Iteration(ts, cost, r1, r2, d1, d2) ==
    TrialOn(ts, cost, r1, SecondTeam(r1, r2, Len(ts)), d1, d2)

LoopFrame == UNCHANGED << caller, alert, namesInput, players, teamCount, teamIndex,
                          direction, nextP, iterations, seeded, finalCost,
                    leaderboardData, loading, notFoundPlayers >>

\* i < iterations fails: the loop and the optimizer return.
LoopExit ==
    /\ pc = "loop"
    /\ ~LoopCond(i, iterations)
    /\ pc' = "done"
    /\ outcome' = "exhausted"
    /\ UNCHANGED << teams, i, currentCost,
                    leaderboardData, loading, notFoundPlayers >>
    /\ LoopFrame

\* if (currentCost === 0) break
BreakOnZero ==
    /\ pc = "loop"
    /\ LoopCond(i, iterations)
    /\ CostIsZero(currentCost)
    /\ pc' = "done"
    /\ outcome' = "break"
    /\ UNCHANGED << teams, i, currentCost,
                    leaderboardData, loading, notFoundPlayers >>
    /\ LoopFrame

\* One trial: the loop body for any draws, then i++.  Trials are explored for
\* the worked calls, MaxTrials of them.
Trial ==
    /\ pc = "loop"
    /\ LoopCond(i, iterations)
    /\ ~CostIsZero(currentCost)
    /\ i < MaxTrials
    /\ << namesInput, teamCount.val >> \in Scenarios
    /\ \E r1 \in Draws(Len(teams)), r2 \in Draws(Len(teams)) :
         \E d1 \in PlayerDraws(teams[r1 + 1]),
            d2 \in PlayerDraws(teams[SecondTeam(r1, r2, Len(teams)) + 1]) :
            \E after \in { Iteration(teams, currentCost, r1, r2, d1, d2) } :
               /\ teams' = after.teams
               /\ currentCost' = after.cost
               /\ outcome' = after.outcome
    /\ i' = i + 1
    /\ UNCHANGED pc
    /\ LoopFrame

\* ---------------------------------------------- src/website/script.js
\* The guards let a one-member team through as if it were empty.
website_calculateHypotheticalCost_GuardAbove1(ts, t1_idx, t2_idx, p1, p2) ==
    calculateStdDev(
        [[t \in DOMAIN ts |-> getAverageSkill(ts[t])] EXCEPT
            ![t1_idx + 1] = IF Len(ts[t1_idx + 1].players) > 1
                            THEN Div(Add(Sub(ts[t1_idx + 1].totalSkill, p1.skill), p2.skill),
                                     Len(ts[t1_idx + 1].players))
                            ELSE Zero,
            ![t2_idx + 1] = IF Len(ts[t2_idx + 1].players) > 1
                            THEN Div(Add(Sub(ts[t2_idx + 1].totalSkill, p2.skill), p1.skill),
                                     Len(ts[t2_idx + 1].players))
                            ELSE Zero])

\* calculateHypotheticalCost of the website file: as that of src/script.js,
\* with a new average of 0 for a team of length 0.
website_calculateHypotheticalCost(ts, t1_idx, t2_idx, p1, p2) ==
    calculateStdDev(
        [[t \in DOMAIN ts |-> getAverageSkill(ts[t])] EXCEPT
            ![t1_idx + 1] = IF Len(ts[t1_idx + 1].players) > 0
                            THEN Div(Add(Sub(ts[t1_idx + 1].totalSkill, p1.skill), p2.skill),
                                     Len(ts[t1_idx + 1].players))
                            ELSE Zero,
            ![t2_idx + 1] = IF Len(ts[t2_idx + 1].players) > 0
                            THEN Div(Add(Sub(ts[t2_idx + 1].totalSkill, p2.skill), p1.skill),
                                     Len(ts[t2_idx + 1].players))
                            ELSE Zero])

\* The loop body of the website file, the same text as that of src/script.js
\* around its own calculateHypotheticalCost.
website_TrialOn(ts, cost, teamIndex1, teamIndex2, playerIndex1, playerIndex2) ==
    IF Len(ts[teamIndex1 + 1].players) = 0 \/ Len(ts[teamIndex2 + 1].players) = 0
    THEN [teams |-> ts, cost |-> cost, outcome |-> "skip"]
    ELSE Decide(ts, cost, teamIndex1, teamIndex2, playerIndex1, playerIndex2,
                website_calculateHypotheticalCost(ts, teamIndex1, teamIndex2,
                    ts[teamIndex1 + 1].players[playerIndex1 + 1],
                    ts[teamIndex2 + 1].players[playerIndex2 + 1]))

website_Iteration(ts, cost, r1, r2, d1, d2) ==
    website_TrialOn(ts, cost, r1, SecondTeam(r1, r2, Len(ts)), d1, d2)

\* ------------------------------------------------------------ displayTeams
\* The decimal digits of n > 0, highest first.
RECURSIVE DecimalDigits(_)
DecimalDigits(n) == IF n < 10 THEN << n >> ELSE Append(DecimalDigits(n \div 10), n % 10)

\* Text order of two numerals: digit by digit, a proper prefix first.
RECURSIVE TextLess(_, _)
TextLess(s, t) ==
    IF s = << >> THEN t # << >>
    ELSE IF t = << >> THEN FALSE
    ELSE IF s[1] # t[1] THEN s[1] < t[1]
    ELSE TextLess(Tail(s), Tail(t))

\* a.name.localeCompare(b.name) < 0 for the names `Tým ${a}` and `Tým ${b}`:
\* the names are compared as text, so "Tým 10" comes before "Tým 2".
NameBefore(a, b) == TextLess(DecimalDigits(a), DecimalDigits(b))

\* teams.sort((a, b) => a.name.localeCompare(b.name))
RECURSIVE InsertByName(_, _)
InsertByName(sorted, team) ==
    IF sorted = << >> THEN << team >>
    ELSE IF ~NameBefore(team.name, sorted[Len(sorted)].name) THEN Append(sorted, team)
    ELSE Append(InsertByName(SubSeq(sorted, 1, Len(sorted) - 1), team), sorted[Len(sorted)])

RECURSIVE SortByName(_)
SortByName(ts) ==
    IF ts = << >> THEN << >>
    ELSE InsertByName(SortByName(SubSeq(ts, 1, Len(ts) - 1)), ts[Len(ts)])

\* team.players.sort((a, b) => b.skill - a.skill) for every team
WithSortedPlayers(ts) == [t \in DOMAIN ts |-> [ts[t] EXCEPT !.players = SortBySkillDesc(@)]]

\* The teams array as displayTeams leaves it: sorted by name, the players of
\* every team sorted by skill, best first.
SortedForDisplay(ts) == WithSortedPlayers(SortByName(ts))

\* displayTeams(teams), the last step of handleBuildTeams: it sorts the array
\* it was given and shows calculateCost of the sorted teams.
displayTeams ==
    /\ pc = "done"
    /\ caller = "handleBuildTeams"
    /\ pc' = "displayed"
    /\ teams' = SortedForDisplay(teams)
    /\ finalCost' = calculateCost(teams')
    /\ UNCHANGED << caller, alert, namesInput, players, teamCount, teamIndex, direction,
                    nextP, iterations, i, currentCost, outcome, seeded,
                    leaderboardData, loading, notFoundPlayers >>

\* displayTeams(teams, notFoundPlayers) of src/website/script.js, the last
\* step of its handleBuildTeams: it sorts the array it was given in the same
\* two ways.  Its finalCost is computed and shown nowhere.  The names not
\* found are listed in the order of localeCompare; the model keeps which
\* names are listed.
website_displayTeams ==
    /\ pc = "done"
    /\ caller = "website_handleBuildTeams"
    /\ pc' = "displayed"
    /\ teams' = SortedForDisplay(teams)
    /\ UNCHANGED << caller, alert, namesInput, players, teamCount, teamIndex, direction,
                    nextP, iterations, i, currentCost, outcome, seeded, finalCost,
                    leaderboardData, loading, notFoundPlayers >>

Next ==
    \/ loadLeaderboard
    \/ handleBuildTeams
    \/ website_handleBuildTeams
    \/ balanceTeams
    \/ optimizeTeams_HillClimbing
    \/ SeedStep
    \/ SeedThrow
    \/ OptimizeEnter
    \/ LoopExit
    \/ BreakOnZero
    \/ Trial
    \/ displayTeams
    \/ website_displayTeams

Spec == Init /\ [][Next]_vars

\* ============================================================= properties
\* How often player p occurs in the teams ts, over all teams and slots.
Occurrences(p, ts) ==
    Cardinality({ <<t, n>> \in (DOMAIN ts) \X (1..Len(players)) :
                    n \in DOMAIN ts[t].players /\ ts[t].players[n] = p })

RECURSIVE SumSizes(_)
SumSizes(ts) ==
    IF ts = << >> THEN 0
    ELSE SumSizes(SubSeq(ts, 1, Len(ts) - 1)) + Len(ts[Len(ts)].players)

SkillsOf(ps) == [n \in DOMAIN ps |-> ps[n].skill]

\* The skills of the players ps added up as numbers, in the order of ps.
SumSkills(ps) == Sum(SkillsOf(ps))

\* The totalSkill fields of the teams ts added up as numbers, in team order.
SumTotalSkill(ts) == Sum([t \in DOMAIN ts |-> ts[t].totalSkill])

\* ts holds every player of the players array exactly once, and nothing else.
IsPartition(ts) ==
    /\ \A n \in DOMAIN players : Occurrences(players[n], ts) = 1
    /\ SumSizes(ts) = Len(players)

SeedingReturned == pc = "seed" /\ nextP = Len(players)
Optimizing == pc \in {"loop", "done"}

\* C1: for every team count >= 1, when seedTeams_Serpentine has returned each
\* input player is in exactly one team, exactly once, and the team sizes sum
\* to the number of input players.
C1_SeedingIsComplete ==
    (SeedingReturned /\ teamCount.val >= 1) => IsPartition(teams)

C1_Witness ==
    /\ SeedingReturned
    /\ Len(teams) = 2
    /\ Len(players) = 4
    /\ IsPartition(teams)

\* C2: after any number of optimizer trials (committed, rejected, skipped) the
\* teams are still a partition of the input players.
C2_TrialsKeepPartition ==
    Optimizing => IsPartition(teams)

C2_Witness ==
    /\ pc = "loop"
    /\ outcome = "commit"
    /\ i >= 2
    /\ teams # seeded
    /\ IsPartition(teams)

\* C3: after each seeding assignment and each optimizer trial, every team's
\* cached totalSkill is the sum of the skills of its current players.
C3_TotalSkillIsSum ==
    (pc \in {"seed", "loop", "done"}) =>
        \A t \in DOMAIN teams : teams[t].totalSkill = SumSkills(teams[t].players)

\* C4: a swap is committed only when the hypothetical cost is strictly below
\* the current cost: over every step of the loop the current cost does not
\* increase, a committed swap lowers it strictly, and the teams change only
\* together with a strictly lower cost (tracked and recomputed).
C4_StrictImprovementOnly ==
    [][ (pc = "loop") =>
          /\ ~Less(currentCost, currentCost')
          /\ (outcome' = "commit" /\ i' = i + 1) => Less(currentCost', currentCost)
          /\ (teams' # teams) =>
                /\ Less(currentCost', currentCost)
                /\ Less(calculateCost(teams'), calculateCost(teams)) ]_vars

C4_Witness ==
    /\ outcome = "commit"
    /\ Less(currentCost, calculateCost(seeded))
    /\ teams # seeded

\* Team index of the j-th pick (j from 0) of a snake draft over k teams.
Snake(j, k) == IF j % (2 * k) < k THEN j % (2 * k) ELSE 2 * k - 1 - (j % (2 * k))

\* C5: seeding takes the players in descending-skill order and gives the j-th
\* of them to team Snake(j, k), i.e. 0,1,..,k-1,k-1,..,0,0,1,..; skills
\* 50,40,30,20,10 into 2 teams give {50,20,10} and {40,30}.
C5_SerpentineOrder ==
    (pc = "seed" /\ Len(teams) >= 1) =>
        /\ \A a, b \in DOMAIN players :
              a < b => ~Less(players[a].skill, players[b].skill)
        /\ teamIndex = Snake(nextP, Len(teams))
        /\ direction = (IF nextP % (2 * Len(teams)) < Len(teams) THEN 1 ELSE -1)
        /\ \A j \in 0..(nextP - 1) :
             \E n \in DOMAIN teams[Snake(j, Len(teams)) + 1].players :
                teams[Snake(j, Len(teams)) + 1].players[n] = players[j + 1]
        /\ (/\ SkillsOf(players)
                 = <<Number(50), Number(40), Number(30), Number(20), Number(10)>>
            /\ Len(teams) = 2
            /\ nextP = 5) =>
              /\ SkillsOf(teams[1].players) = <<Number(50), Number(20), Number(10)>>
              /\ SkillsOf(teams[2].players) = <<Number(40), Number(30)>>

C5_Witness ==
    /\ pc = "seed"
    /\ nextP = 5
    /\ Len(teams) = 2
    /\ SkillsOf(players) = <<Number(50), Number(40), Number(30), Number(20), Number(10)>>
    /\ SkillsOf(teams[1].players) = <<Number(50), Number(20), Number(10)>>

Called == pc # "idle"
Rejected == pc = "alert"
Threw == pc = "threw"

\* C6 as stated: a team count below 1 ends in an error with no partition, and
\* a team count of exactly 1 is accepted.
C6_Original ==
    (Called /\ ~teamCount.nan) =>
        /\ (teamCount.val < 1) => ~Optimizing
        /\ (teamCount.val = 1 /\ namesInput # << >>) => (~Rejected /\ ~Threw)

\* C6 (amended): handleBuildTeams rejects a team count that is NaN or below 2,
\* so 1 is rejected too, with the team-count alert and without calling
\* balanceTeams.  balanceTeams checks nothing itself: called directly with a
\* team count below 1 it makes no team, throws at the first player of a
\* non-empty list and returns the empty team list, without error, for an empty
\* list; a team count of 1 it accepts.
C6_TeamCountValidation ==
    /\ (Rejected /\ namesInput # << >> /\ (teamCount.nan \/ teamCount.val < 2)) =>
          (alert = "teamCount" /\ caller = "none" /\ teams = << >>)
    /\ (caller = "handleBuildTeams") => (~teamCount.nan /\ teamCount.val >= 2)
    /\ (caller = "balanceTeams" /\ teamCount.val < 1) =>
          /\ teams = << >>
          /\ (players # << >>) => (pc \in {"seed", "threw"} /\ nextP = 0)
          /\ (players = << >>) => ~Threw
    /\ (caller = "balanceTeams" /\ teamCount.val = 1) =>
          (~Threw /\ ~Rejected /\ Len(teams) = 1)

C6_Witness ==
    /\ Rejected
    /\ alert = "teamCount"
    /\ ~teamCount.nan
    /\ teamCount.val = 1
    /\ Len(namesInput) = 2

\* C7 as stated: with at least two teams and at least one player, more teams
\* than players is not an error.
C7_Original ==
    (Called /\ ~teamCount.nan /\ teamCount.val >= 2 /\ Len(namesInput) >= 1
        /\ teamCount.val > Len(namesInput)) => (~Rejected /\ ~Threw)

\* The click handlers that call balanceTeams.
Handlers == {"handleBuildTeams", "website_handleBuildTeams"}

\* ps holds one player per line of names, in the order of the lines or not.
OnePerLine(ps, names) ==
    /\ Len(ps) = Len(names)
    /\ \A n \in DOMAIN names : \E k \in DOMAIN ps : ps[k].id = n

\* ps holds players of distinct names (case ignored) that the leaderboard
\* has, each made of the first line of names that spells it.
UniqueFound(ps, names) ==
    /\ \A k \in DOMAIN ps :
          /\ ps[k].id \in DOMAIN names
          /\ FirstOfItsName(names, ps[k].id)
          /\ toLowerCase(ps[k].name) = toLowerCase(names[ps[k].id])
          /\ toLowerCase(ps[k].name) \in DOMAIN LoadedLeaderboard
          /\ ps[k] = FoundPlayer(ps[k].id, LoadedLeaderboard[toLowerCase(ps[k].name)])
    /\ \A k, l \in DOMAIN ps :
          (k # l) => toLowerCase(ps[k].name) # toLowerCase(ps[l].name)

\* C7 (amended): both click handlers reject a team count above the number of
\* players with an alert and never call balanceTeams with one; the players
\* counted are one per line in src/script.js, and the distinct names found in
\* the leaderboard in src/website/script.js.  balanceTeams called directly
\* does not fail on it: team t holds the t-th best player for t up to the
\* number of players, the other teams are empty with totalSkill 0, the cost
\* at optimizer entry is the one of these averages with 0 for each empty
\* team, and the optimizer runs without throwing and keeps that shape.
C7_MoreTeamsThanPlayers ==
    /\ (Rejected /\ namesInput # << >> /\ ~teamCount.nan /\ teamCount.val >= 2) =>
          /\ alert \in {"fewPlayers", "fewFound"}
          /\ Len(players) < teamCount.val
          /\ teams = << >>
          /\ (alert = "fewPlayers") => players = attendingPlayers(namesInput, EmptyMap)
                                       \/ players = attendingPlayers(namesInput, LoadedLeaderboard)
          /\ (alert = "fewFound") => players = website_attendingPlayers(namesInput, EmptyMap)
                                     \/ players = website_attendingPlayers(namesInput, LoadedLeaderboard)
    /\ (Called /\ namesInput # << >> /\ ~teamCount.nan /\ teamCount.val >= 2
          /\ Len(namesInput) < teamCount.val /\ caller \in Handlers \cup {"none"}) =>
          (Rejected /\ teams = << >>)
    /\ (caller \in Handlers) =>
          /\ Len(players) >= teamCount.val
          /\ Len(namesInput) >= teamCount.val
          /\ alert = "none"
    /\ (caller = "handleBuildTeams") => OnePerLine(players, namesInput)
    /\ (caller = "website_handleBuildTeams") => UniqueFound(players, namesInput)
    /\ (caller = "balanceTeams" /\ teamCount.val >= 1 /\ teamCount.val > Len(players)) =>
          /\ ~Threw
          /\ Optimizing =>
                /\ Len(seeded) = teamCount.val
                /\ \A t \in DOMAIN seeded :
                      IF t <= Len(players)
                      THEN seeded[t].players = << players[t] >>
                      ELSE seeded[t].players = << >> /\ seeded[t].totalSkill = Zero
                /\ \A t \in DOMAIN teams : Len(teams[t].players) = Len(seeded[t].players)
                /\ calculateCost(seeded) = calculateStdDev(
                      [t \in 1..teamCount.val |->
                          IF t <= Len(players) THEN players[t].skill ELSE Zero])
                /\ (i = 0) => currentCost = calculateCost(seeded)

\* The website handler rejects a list that is long enough as typed: of three
\* lines that name two players of the leaderboard, one of them twice in two
\* spellings, it keeps two, too few for three teams.
C7_WebsiteRejects ==
    /\ Rejected
    /\ alert = "fewFound"
    /\ teamCount.val = 3
    /\ Len(namesInput) = 3
    /\ Len(players) = 2
    /\ \E m, n \in DOMAIN namesInput :
          m # n /\ namesInput[m] # namesInput[n]
                /\ toLowerCase(namesInput[m]) = toLowerCase(namesInput[n])
    /\ notFoundPlayers = {}
    /\ teams = << >>

\* The handler of src/script.js rejects a short list.
C7_HandlerRejects ==
    /\ Rejected
    /\ alert = "fewPlayers"
    /\ teamCount.val = 3
    /\ Len(players) = 2
    /\ \E k \in DOMAIN players : players[k].skill # DEFAULT_TRUESKILL
    /\ \E k \in DOMAIN players :
          players[k].skill = DEFAULT_TRUESKILL /\ players[k].name = namesInput[k]

C7_Witness ==
    /\ caller = "balanceTeams"
    /\ pc = "loop"
    /\ outcome = "skip"
    /\ Len(players) = 3
    /\ teamCount.val = 5
    /\ Len(teams[3].players) = 1
    /\ Len(teams[4].players) = 0
    /\ Len(teams[5].players) = 0

\* C8 as stated: an empty player list (with a team count >= 1) is never
\* answered with an error.
C8_Original ==
    (Called /\ namesInput = << >> /\ ~teamCount.nan /\ teamCount.val >= 1) =>
        (~Rejected /\ ~Threw)

\* C8 (amended): balanceTeams called directly with an empty player list
\* returns teamCount teams, all empty with totalSkill 0, at cost 0 and without
\* running a trial or failing.  handleBuildTeams answers an empty names input
\* with the names alert and produces no teams.
C8_EmptyPlayerList ==
    /\ (Rejected /\ namesInput = << >>) => (alert = "names" /\ teams = << >>)
    /\ (caller = "handleBuildTeams") => players # << >>
    /\ (caller = "balanceTeams" /\ players = << >>) =>
          /\ ~Threw
          /\ Len(teams) = (IF teamCount.val > 0 THEN teamCount.val ELSE 0)
          /\ \A t \in DOMAIN teams : teams[t].players = << >> /\ teams[t].totalSkill = Zero
          /\ Optimizing => (currentCost = Zero /\ calculateCost(teams) = Zero /\ i = 0)

C8_Witness ==
    /\ caller = "balanceTeams"
    /\ players = << >>
    /\ pc = "done"
    /\ Len(teams) = 3
    /\ currentCost = Zero

\* C9: with a trial budget of 0 the optimizer returns the seeded teams as they
\* were (members, order, totalSkill) and its cost is the seeded cost.
C9_ZeroBudgetChangesNothing ==
    (pc = "done" /\ iterations = 0) =>
        /\ teams = seeded
        /\ currentCost = calculateCost(seeded)
        /\ i = 0

C9_Witness ==
    /\ pc = "done"
    /\ iterations = 0
    /\ currentCost # Zero
    /\ Len(players) >= 3
    /\ teams = seeded

\* C10: a committed swap leaves the sum of totalSkill over all teams as it
\* was, so during optimization the sum is the one the seeded teams had.
C10_SwapConservesTotal ==
    Optimizing => SumTotalSkill(teams) = SumTotalSkill(seeded)

\* C11: at the start of every optimizer trial (and at return) the tracked
\* currentCost is calculateCost of the teams as they are: the hypothetical
\* cost of a swap is the cost the teams have once the swap is committed.
C11_TrackedCostIsActual ==
    /\ [](Optimizing => currentCost = calculateCost(teams))
    /\ [][ (pc = "loop" /\ outcome' = "commit" /\ i' = i + 1) =>
              (currentCost' = calculateCost(teams') /\ currentCost' # currentCost) ]_vars

C11_Witness ==
    /\ pc = "loop"
    /\ outcome = "commit"
    /\ i < iterations
    /\ currentCost # Zero
    /\ currentCost = calculateCost(teams)
    /\ \E t, u \in DOMAIN teams : Len(teams[t].players) # Len(teams[u].players)

\* The loop is about to run a trial that goes on to pick two teams.
ReachesTeamSelection ==
    pc = "loop" /\ LoopCond(i, iterations) /\ ~CostIsZero(currentCost)

\* The teams whose member list differs between ts and us.
ChangedTeams(ts, us) == { t \in DOMAIN ts : ts[t].players # us[t].players }

\* C12: in every trial that reaches team selection the two team indices are
\* distinct whatever the two draws are (an equal second draw becomes
\* (first + 1) mod teamCount), and a swap never stays inside one team: a step
\* that changes the teams changes the members of exactly two of them.  With a
\* single team no trial reaches team selection.
C12_TwoDistinctTeams ==
    /\ [](ReachesTeamSelection =>
            /\ Len(teams) >= 2
            /\ \A r1, r2 \in Draws(Len(teams)) :
                  /\ SecondTeam(r1, r2, Len(teams)) \in Draws(Len(teams))
                  /\ SecondTeam(r1, r2, Len(teams)) # r1
                  /\ (r1 = r2) => SecondTeam(r1, r2, Len(teams)) = (r1 + 1) % Len(teams))
    /\ []((Optimizing /\ Len(teams) = 1) => (i = 0 /\ teams = seeded))
    /\ [][ (pc = "loop" /\ teams' # teams) =>
              Cardinality(ChangedTeams(teams, teams')) = 2 ]_vars

C12_Witness ==
    /\ ReachesTeamSelection
    /\ outcome = "commit"
    /\ Len(teams) = 3
    /\ Cardinality(ChangedTeams(seeded, teams)) >= 2

\* C13: once the current cost is 0, at optimizer entry or after a committed
\* swap, the loop ends without another trial and the optimizer leaves the
\* teams as they are, whatever is left of the budget; otherwise the loop ends
\* when the budget of trials is used up, never later.
C13_StopsAtZeroOrBudget ==
    /\ [][ (pc = "loop" /\ currentCost = Zero) =>
              (pc' = "done" /\ teams' = teams /\ currentCost' = currentCost /\ i' = i) ]_vars
    /\ [](Optimizing => (i >= 0 /\ i <= iterations))
    /\ []((pc = "done") => (currentCost = Zero \/ i = iterations))
    /\ []((pc = "done" /\ outcome = "break") => (currentCost = Zero /\ i < iterations))
    /\ []((pc = "done" /\ outcome = "exhausted") => i = iterations)

C13_Witness ==
    /\ pc = "done"
    /\ outcome = "break"
    /\ currentCost = Zero
    /\ teams # seeded
    /\ i >= 1
    /\ i < iterations

Sizes(ts) == [t \in DOMAIN ts |-> Len(ts[t].players)]

\* C14: optimization changes only who is in which team: over any sequence of
\* trials the number of teams and the size of every team are those of the
\* seeded teams, no step of the loop changes them, and a trial that picks an
\* empty team changes neither the teams nor the current cost.
C14_OnlyCompositionChanges ==
    /\ [](Optimizing => (Len(teams) = Len(seeded) /\ Sizes(teams) = Sizes(seeded)))
    /\ [][ (pc = "loop") => Sizes(teams') = Sizes(teams) ]_vars
    /\ [][ (pc = "loop" /\ outcome' = "skip" /\ i' = i + 1) =>
              (teams' = teams /\ currentCost' = currentCost /\ pc' = "loop") ]_vars

C14_Witness ==
    /\ pc = "loop"
    /\ outcome = "commit"
    /\ teams # seeded
    /\ Sizes(teams) = Sizes(seeded)
    /\ Sizes(teams) = <<1, 1, 2>>

C14_SkipWitness ==
    /\ pc = "loop"
    /\ outcome = "skip"
    /\ i = 2
    /\ teams = seeded
    /\ \E t \in DOMAIN teams : Len(teams[t].players) = 0

\* C15: when balanceTeams is reached through handleBuildTeams, of either
\* file (at least 2 teams, at least as many players as teams), every team has
\* a member once seeding has returned and after every optimizer trial, so no
\* trial takes the empty-team branch and every call of
\* calculateHypotheticalCost divides by a member count of at least 1.
C15_NoEmptyTeamViaHandler ==
    (caller \in Handlers) =>
        /\ teamCount.val >= 2
        /\ Len(players) >= teamCount.val
        /\ Len(teams) = teamCount.val
        /\ (SeedingReturned \/ Optimizing) =>
              \A t \in DOMAIN teams : Len(teams[t].players) >= 1
        /\ outcome # "skip"
        /\ ReachesTeamSelection =>
              \A r1, r2 \in Draws(Len(teams)) :
                 /\ Len(teams[r1 + 1].players) > 0
                 /\ Len(teams[SecondTeam(r1, r2, Len(teams)) + 1].players) > 0

\* Through the handler of src/website/script.js: four lines, one of them a
\* repeated name, leave three players for three teams, and the second trial
\* has been made with every team still of one member.
C15_Witness ==
    /\ caller = "website_handleBuildTeams"
    /\ pc = "loop"
    /\ outcome \in {"reject", "commit"}
    /\ i >= 2
    /\ Len(namesInput) = 4
    /\ Len(teams) = 3
    /\ Len(players) = 3
    /\ \A t \in DOMAIN teams : Len(teams[t].players) = 1

\* Through the handler of src/script.js.
C15_HandlerWitness ==
    /\ caller = "handleBuildTeams"
    /\ pc = "loop"
    /\ outcome = "reject"
    /\ i >= 2
    /\ Len(teams) = 3
    /\ Len(players) = 3
    /\ \A t \in DOMAIN teams : Len(teams[t].players) = 1

\* C16: the two files seed with the same text, and from the same teams and
\* current cost, on the same draws, a trial of src/website/script.js leaves
\* the same members, in the same order, the same totalSkill in every team and
\* the same current cost as a trial of src/script.js; whenever
\* calculateHypotheticalCost is called both teams have members, so the
\* website file's zero-length guards never choose their 0.
C16_EnginesAgree ==
    ReachesTeamSelection =>
        \A r1, r2 \in Draws(Len(teams)) :
           \A d1 \in PlayerDraws(teams[r1 + 1]),
              d2 \in PlayerDraws(teams[SecondTeam(r1, r2, Len(teams)) + 1]) :
              \A after \in { Iteration(teams, currentCost, r1, r2, d1, d2) } :
                 /\ website_Iteration(teams, currentCost, r1, r2, d1, d2) = after
                 /\ (after.outcome # "skip") =>
                       /\ Len(teams[r1 + 1].players) > 0
                       /\ Len(teams[SecondTeam(r1, r2, Len(teams)) + 1].players) > 0

C16_Witness ==
    /\ ReachesTeamSelection
    /\ outcome = "commit"
    /\ i >= 2
    /\ teams # seeded
    /\ \E t \in DOMAIN teams : Len(teams[t].players) = 1
====
